---- MODULE Spec2Model ----
(***************************************************************************)
(* The schema type registry of async-graphql (src/registry/mod.rs) and the *)
(* union composition generated by derive/src/union.rs, as a state machine. *)
(*                                                                         *)
(* Conventions of the translation                                          *)
(*   - a Rust String holding a type reference is a sequence of tokens: the *)
(*     characters "[", "]" and "!" and, as one token, a GraphQL name;      *)
(*   - Option<T> is a set with at most one element ({} is None);           *)
(*   - IndexMap<String, V> is a function from its keys, IndexSet<String>   *)
(*     and HashSet<String> are sets (their equality ignores the order);    *)
(*   - every MetaType variant is a record with the same fields, the ones   *)
(*     a variant does not have left empty; MetaType::Scalar has no         *)
(*     rust_typename, so its rust_typename is None;                        *)
(*   - a MetaVisibleFn is the set of the viewers it returns true for.      *)
(***************************************************************************)
EXTENDS Naturals, Sequences, FiniteSets, TLC

\* bounds of the model
MaxCalls == 2
MaxKeys == 2
MaxNesting == 2

----------------------------------------------------------------------------
\* Type-reference strings

Named(n) == <<n>>
NonNull(t) == t \o <<"!">>
List(t) == <<"[">> \o t \o <<"]">>

\* strip_brackets that keeps the last character
strip_brackets_KeepLast(type_name) ==
  IF Len(type_name) > 0 /\ Head(type_name) = "[" THEN {Tail(type_name)} ELSE {}

\* fn strip_brackets: strip_prefix('[') and then drop the last character
strip_brackets(type_name) ==
  IF Len(type_name) > 0 /\ Head(type_name) = "["
  THEN {SubSeq(Tail(type_name), 1, Len(Tail(type_name)) - 1)}
  ELSE {}

\* MetaTypeName::create
create(type_name) ==
  IF Len(type_name) > 0 /\ type_name[Len(type_name)] = "!"
  THEN [tag |-> "NonNull", name |-> SubSeq(type_name, 1, Len(type_name) - 1)]
  ELSE IF strip_brackets(type_name) # {}
       THEN [tag |-> "List", name |-> CHOOSE r \in strip_brackets(type_name) : TRUE]
       ELSE [tag |-> "Named", name |-> type_name]

\* impl Display for MetaTypeName
fmt(self) ==
  CASE self.tag = "Named" -> self.name
    [] self.tag = "NonNull" -> self.name \o <<"!">>
    [] self.tag = "List" -> <<"[">> \o self.name \o <<"]">>

RECURSIVE concrete_typename(_)
\* concrete_typename that unwraps one list or non-null wrapper only
concrete_typename_OneLevel(type_name) == create(type_name).name

\* MetaTypeName::concrete_typename
concrete_typename(type_name) ==
  LET t == create(type_name)
  IN  IF t.tag = "Named" THEN t.name ELSE concrete_typename(t.name)

\* The map key a string denotes: a string that is one name is that name; any
\* other string (empty, or with brackets left in it) is the key of no type.
NoSuchKey == "<no such type>"
as_key(s) == IF Len(s) = 1 /\ s[1] \notin {"[", "]", "!"} THEN s[1] ELSE NoSuchKey

----------------------------------------------------------------------------
\* MetaType

FakeTypename == "__fake_type__"

MetaType(id, n, rt) ==
  [type_id |-> id, name |-> n, rust_typename |-> rt, fields |-> <<>>,
   possible_types |-> {}, keys |-> {}, input_fields |-> <<>>, visible |-> {}]

\* MetaField and MetaInputValue, as far as the registry reads them
MetaField(t, as) == [ty |-> t, args |-> as, visible |-> {}]
MetaInputValue(t) == [ty |-> t, visible |-> {}]
NoArgs == <<>>

\* MetaDirective, as far as the registry reads it
MetaDirective(as) == [args |-> as, visible |-> {}]

\* the viewers of the schema (what a visible function looks at in the Context)
Viewers == {"guest", "admin"}

\* visible: Some(f), f true for the viewers in vs, on a type, field, argument
\* or directive
VisibleTo(x, vs) == [x EXCEPT !.visible = {vs}]

\* fn is_visible
is_visible(ctx, visible) == \A f \in visible : ctx \in f

\* the placeholder create_type inserts before it calls the builder
FakeType == MetaType("Object", "", {FakeTypename})

\* MetaType::rust_typename
rust_typename(ty) == IF ty.type_id = "Scalar" THEN {} ELSE ty.rust_typename

\* fn is_system_type; DunderNames are the names of the model that start with "__"
DunderNames == {"__TypeKind"}
is_system_type(name) ==
  \/ name \in DunderNames
  \/ name \in {"Boolean", "Int", "Float", "String", "ID"}

\* the filter of has_entities, create_entity_type_and_root_field and
\* remove_unused_types: an Object or Interface with keys: Some(non-empty)
IsKeyed(ty) ==
  /\ ty.type_id \in {"Object", "Interface"}
  /\ \E ks \in ty.keys : Len(ks) > 0

\* Registry::has_entities
has_entities(tys) == \E n \in DOMAIN tys : IsKeyed(tys[n])

----------------------------------------------------------------------------
\* The application's type definitions: what create_type_info of each Rust type
\* does.  ops is the sequence of registry calls its builder closure makes, desc
\* the MetaType the closure returns.

Reg(d) == [op |-> "reg", def |-> d]
Insert(d) == [op |-> "insert", def |-> d]
Extend(d) == [op |-> "extend", def |-> d]
Implements(d) == [op |-> "implements", def |-> d]

\* a variant of the enum: ty is the type as the variant writes it, a path
Direct(d) == [ty |-> d, flatten |-> FALSE]
Flatten(d) == [ty |-> d, flatten |-> TRUE]

IsDirect(m) == ~m.flatten

\* The Rust type a path names: a type written by another path than its name
TypePaths == "self::X" :> "X"
Resolve(path) == IF path \in DOMAIN TypePaths THEN TypePaths[path] ELSE path

\* generate without the HashSet of the variants' types
generate_NoHashSet(members) ==
  IF members = <<>> THEN "NoMembers" ELSE "Ok"

\* union.rs: the loop of generate over the variants and the test after it.
\*   "AlreadyUsed"  Err: "This type is already used in another variant"
\*   "NoMembers"    Err: "A GraphQL Union type must include one or more unique
\*                  member types."
\*   "Ok"           the expanded impls
generate(members) ==
  IF \E i \in 1..Len(members) : \E j \in 1..(i - 1) : members[j].ty = members[i].ty
  THEN "AlreadyUsed"
  ELSE IF members = <<>> THEN "NoMembers" ELSE "Ok"

\* The expanded code has one impl From<#ty> for the enum per variant: two
\* variants of one Rust type are two impls of one trait for one type, which does
\* not compile.
type_into_impls(members) ==
  IF \E i \in 1..Len(members) : \E j \in 1..(i - 1) :
        Resolve(members[j].ty) = Resolve(members[i].ty)
  THEN "ConflictingFrom"
  ELSE "Ok"

\* what becomes of #[derive(Union)] on an enum with these variants
derive_union(members) ==
  IF generate(members) # "Ok" THEN generate(members) ELSE type_into_impls(members)

\* union.rs: registry_types, one create_type_info per member that is not flattened
\* registry_types that registers no member
registry_types_None(members) == <<>>

registry_types(members) ==
  LET ds == SelectSeq(members, IsDirect)
  IN  [i \in 1..Len(ds) |-> Reg(Resolve(ds[i].ty))]

RECURSIVE possible_types_ops(_)
\* union.rs: possible_types, per member in declaration order: insert the type
\* name of a direct member; for a flattened member create_fake_output_type
\* (create_type_info, then a clone of the stored type) and extend
possible_types_ops(members) ==
  IF members = <<>> THEN <<>>
  ELSE (IF Head(members).flatten
        THEN <<Reg(Resolve(Head(members).ty)), Extend(Resolve(Head(members).ty))>>
        ELSE <<Insert(Resolve(Head(members).ty))>>) \o possible_types_ops(Tail(members))

\* union.rs: the closure handed to create_output_type
UnionOps(members) == registry_types(members) \o possible_types_ops(members)

StringTy == Named("String")

ObjectDef(n, rt, fs, os) ==
  [name |-> n, rust |-> rt, type_id |-> "Object", ops |-> os,
   desc |-> [MetaType("Object", n, {rt}) EXCEPT !.fields = fs]]

InterfaceDef(n, rt, fs, pts, os) ==
  [name |-> n, rust |-> rt, type_id |-> "Interface", ops |-> os,
   desc |-> [MetaType("Interface", n, {rt}) EXCEPT !.fields = fs, !.possible_types = pts]]

UnionDef(n, rt, members) ==
  [name |-> n, rust |-> rt, type_id |-> "Union", ops |-> UnionOps(members),
   desc |-> MetaType("Union", n, {rt}), members |-> members]

InputObjectDef(n, rt, fs, os) ==
  [name |-> n, rust |-> rt, type_id |-> "InputObject", ops |-> os,
   desc |-> [MetaType("InputObject", n, {rt}) EXCEPT !.input_fields = fs]]

\* a definition whose #[graphql(visible = ..)] function is true for the viewers vs
Hidden(def, vs) == [def EXCEPT !.desc = VisibleTo(@, vs)]

LeafDef(id, n, rt) ==
  [name |-> n, rust |-> rt, type_id |-> id, ops |-> <<>>,
   desc |-> MetaType(id, n, IF id = "Scalar" THEN {} ELSE {rt})]

Defs ==
     "Query" :> ObjectDef("Query", "app::Query",
                   "a" :> MetaField(Named("A"),
                                    "at" :> VisibleTo(MetaInputValue(Named("Date")), {"admin"}))
                @@ "s" :> MetaField(NonNull(StringTy),
                                    "in" :> MetaInputValue(List(NonNull(Named("In"))))),
                   <<Reg("A"), Reg("Date"), Reg("Str"), Reg("In")>>)
  @@ "Mutation" :> ObjectDef("Mutation", "app::Mutation",
                   "set" :> VisibleTo(MetaField(Named("E"),
                                                "in" :> MetaInputValue(NonNull(Named("In")))),
                                      {"admin"})
                @@ "h" :> VisibleTo(MetaField(Named("H"), NoArgs), {"admin"})
                @@ "j" :> VisibleTo(MetaField(Named("J"), NoArgs), {"admin"}),
                   <<Reg("E"), Reg("In"), Reg("H"), Reg("J")>>)
  @@ "A" :> UnionDef("A", "app::A", <<Direct("X"), Flatten("B")>>)
  @@ "B" :> UnionDef("B", "app::B", <<Direct("Y"), Flatten("A")>>)
  @@ "P" :> UnionDef("P", "app::P", <<Direct("X"), Flatten("Q")>>)
  @@ "Q" :> UnionDef("Q", "app::Q", <<Flatten("P")>>)
  @@ "X" :> ObjectDef("X", "app::X",
                   "s" :> MetaField(StringTy, NoArgs), <<Reg("Str")>>)
  @@ "Y" :> ObjectDef("Y", "app::Y",
                   "back" :> MetaField(NonNull(List(NonNull(Named("A")))), NoArgs),
                   <<Reg("A")>>)
  @@ "Z" :> ObjectDef("Z", "app::Z",
                   "s" :> MetaField(StringTy, NoArgs), <<Reg("Str")>>)
  @@ "H" :> InterfaceDef("H", "app::H",
                   "s" :> MetaField(StringTy, NoArgs), {"Z"},
                   <<Reg("Str"), Reg("Z"), Implements("Z"), Implements("Z")>>)
  @@ "I" :> InterfaceDef("I", "app::I",
                   "s" :> MetaField(StringTy, NoArgs), {"X"},
                   <<Reg("Str"), Reg("X"), Implements("X")>>)
  @@ "J" :> InterfaceDef("J", "app::J",
                   "s" :> MetaField(StringTy, NoArgs), {"Y", "Z"},
                   <<Reg("Str"), Reg("Y"), Implements("Y"), Reg("Z"), Implements("Z")>>)
  @@ "In" :> Hidden(InputObjectDef("In", "app::In",
                   "e" :> MetaInputValue(NonNull(Named("E"))), <<Reg("E")>>), {"admin"})
  @@ "E" :> LeafDef("Enum", "E", "app::E")
  @@ "TypeKind" :> Hidden(LeafDef("Enum", "__TypeKind", "async_graphql::model::__TypeKind"),
                          {"admin"})
  @@ "Str" :> LeafDef("Scalar", "String", "alloc::string::String")
  @@ "Date" :> LeafDef("Scalar", "Date", "app::Date")
     \* enums that #[derive(Union)] is put on and that do not compile
  @@ "Empty" :> UnionDef("Empty", "app::Empty", <<>>)
  @@ "Dup" :> UnionDef("Dup", "app::Dup", <<Direct("X"), Direct("Y"), Direct("X")>>)
  @@ "DupFlat" :> UnionDef("DupFlat", "app::DupFlat", <<Flatten("A"), Direct("Y"), Flatten("A")>>)
  @@ "DupPath" :> UnionDef("DupPath", "app::DupPath", <<Direct("X"), Direct("self::X")>>)
     \* definitions that reuse a GraphQL name
  @@ "X2" :> ObjectDef("X", "other::X",
                   "t" :> MetaField(StringTy, NoArgs), <<Reg("Str")>>)
  @@ "Y2" :> ObjectDef("Y", "other::Y",
                   "t" :> MetaField(StringTy, NoArgs), <<Reg("Str")>>)
  @@ "XIn" :> InputObjectDef("X", "app::X",
                   "s" :> MetaInputValue(StringTy), <<Reg("Str")>>)
  @@ "DateObj" :> ObjectDef("Date", "app::DateObj",
                   "s" :> MetaField(StringTy, NoArgs), <<Reg("Str")>>)
  \* an enum of the application that has the name of the federation's union
  @@ "Ent" :> LeafDef("Enum", "_Entity", "app::Entity")

DefIds == DOMAIN Defs
UnionIds == {d \in DefIds : Defs[d].type_id = "Union"}

\* the definition is part of a program that compiles
Compiles(d) == d \in UnionIds => derive_union(Defs[d].members) = "Ok"

\* <Any as InputType>::create_type_info, the scalar the federation pass registers
AnyDef == LeafDef("Scalar", "_Any", "async_graphql::types::any::Any")

Names == {Defs[d].name : d \in DefIds} \cup {"_Service", "_Entity", "_Any"}

\* the names and the literals add_keys is called with
KeyNames == {"X", "I", "Date", "Y"}
KeyLiterals == {"id", "sku"}
\* the literal that is passed for a name whose key list has n literals: the
\* literals of a type alternate between the two
KeyLiteralAfter(n) == IF n % 2 = 0 THEN "id" ELSE "sku"

----------------------------------------------------------------------------
VARIABLES
  types,                 \* Registry.types
  directives,            \* Registry.directives
  implements,            \* Registry.implements
  query_type,            \* Registry.query_type
  mutation_type,         \* Registry.mutation_type
  subscription_type,     \* Registry.subscription_type
  enable_federation,     \* Registry.enable_federation
  ignore_name_conflicts, \* Registry.ignore_name_conflicts
  stack,                 \* the create_type calls whose builder is running, innermost last
  status,                \* "ok", or the panic that ended the build
  phase,                 \* "register", "federated", "pruned"
  driven,                \* the definitions the front-end has started a registration from
  invoked,               \* per name, how many times create_type has called a builder for it
  nkeys,                 \* the number of add_keys calls made
  last,                  \* the create_type call the last step made, if it made one
  first,                 \* the outcome of an earlier build of the same schema, if any
  asked,                 \* the last call of a function that only reads, and its result
  requests               \* per request of the serving layer, the read it is in

config == <<directives, query_type, mutation_type, subscription_type, ignore_name_conflicts>>
vars == <<types, directives, implements, query_type, mutation_type, subscription_type,
          enable_federation, ignore_name_conflicts, stack, status, phase, driven,
          invoked, nkeys, last, first, asked, requests>>

NoCall == [def |-> "", outcome |-> "none"]
NoQuery == [op |-> "none", arg |-> <<>>, result |-> <<>>]

\* the requests that are served at the same time, and a request that has not
\* called the registry: pc is the place of its call in find_visible_types, arg
\* the arguments of its call, visible_types the local set of find_visible_types
Requests == {1, 2}
Idle == [pc |-> "idle", arg |-> <<>>, visible_types |-> {}, result |-> {}, answer |-> FALSE]

\* The registry as the schema builder sets it up before the registration pass:
\* the root names, one directive with an argument, the names allowed to merge.
Init ==
  /\ types = <<>>
  /\ directives = ("fmt" :> VisibleTo(MetaDirective("d" :> MetaInputValue(Named("Date"))),
                                      {"admin"}))
  /\ implements = <<>>
  /\ query_type = "Query"
  /\ mutation_type = {"Mutation"}
  /\ subscription_type = {}
  /\ enable_federation = FALSE
  /\ ignore_name_conflicts = {"X"}
  /\ stack = <<>>
  /\ status = "ok"
  /\ phase = "register"
  /\ driven = {}
  /\ invoked = [n \in Names |-> 0]
  /\ nkeys = 0
  /\ last = NoCall
  /\ first = {}
  /\ asked = NoQuery
  /\ requests = [r \in Requests |-> Idle]

----------------------------------------------------------------------------
\* Maps

Put(m, k, v) == (k :> v) @@ m
Remove(m, ks) == [x \in DOMAIN m \ ks |-> m[x]]

----------------------------------------------------------------------------
\* Registry::create_type

\* create_type without the early return on the placeholder: a name whose builder
\* is running is built again
CreateTypeOutcome_NoSentinel(tys, ignore, name, rust, type_id) ==
  IF name \notin DOMAIN tys \/ tys[name].rust_typename = {FakeTypename} THEN "build"
  ELSE IF \E p \in rust_typename(tys[name]) : rust # p /\ name \notin ignore
       THEN "NameConflict"
       ELSE IF rust_typename(tys[name]) # {} /\ tys[name].type_id # type_id
            THEN "KindConflict"
            ELSE "return"

\* create_type that builds a name again when it is registered a second time
CreateTypeOutcome_Rebuild(tys, ignore, name, rust, type_id) ==
  IF name \notin DOMAIN tys THEN "build"
  ELSE IF tys[name].rust_typename = {FakeTypename} THEN "sentinel"
       ELSE IF \E p \in rust_typename(tys[name]) : rust # p /\ name \notin ignore
            THEN "NameConflict"
            ELSE IF rust_typename(tys[name]) # {} /\ tys[name].type_id # type_id
                 THEN "KindConflict"
                 ELSE "build"

\* create_type without the comparison of the Rust type names
CreateTypeOutcome_NoIdentityCheck(tys, ignore, name, rust, type_id) ==
  IF name \notin DOMAIN tys THEN "build"
  ELSE IF tys[name].rust_typename = {FakeTypename} THEN "sentinel"
       ELSE IF rust_typename(tys[name]) # {} /\ tys[name].type_id # type_id
            THEN "KindConflict"
            ELSE "return"

\* create_type that does not consult ignore_name_conflicts
CreateTypeOutcome_NoWhitelist(tys, ignore, name, rust, type_id) ==
  IF name \notin DOMAIN tys THEN "build"
  ELSE IF tys[name].rust_typename = {FakeTypename} THEN "sentinel"
       ELSE IF \E p \in rust_typename(tys[name]) : rust # p
            THEN "NameConflict"
            ELSE IF rust_typename(tys[name]) # {} /\ tys[name].type_id # type_id
                 THEN "KindConflict"
                 ELSE "return"

\* The match of create_type on self.types.get(name): what the call does.
\*   "build"        the name is unknown: insert the placeholder, call the builder
\*   "sentinel"     the name holds the placeholder: return
\*   "NameConflict" panic: two Rust types with the same GraphQL name
\*   "KindConflict" panic: registered again as another kind
\*   "return"       nothing to do
CreateTypeOutcome(tys, ignore, name, rust, type_id) ==
  IF name \notin DOMAIN tys THEN "build"
  ELSE LET ty == tys[name]
       IN  IF rust_typename(ty) = {} THEN "return"
           ELSE LET prev_typename == CHOOSE p \in rust_typename(ty) : TRUE
                IN  IF prev_typename = FakeTypename THEN "sentinel"
                    ELSE IF rust # prev_typename /\ name \notin ignore
                         THEN "NameConflict"
                         ELSE IF ty.type_id # type_id THEN "KindConflict"
                              ELSE "return"

Frame(d) == [def |-> d, pc |-> 1, acc |-> {}]

\* One call of create_type for definition d, made with stk the stack of the
\* builders that are running (the caller's position already moved past the call).
\* A panic ends the build: nothing changes any more.
CreateType(d, stk) ==
  LET def == Defs[d]
      out == CreateTypeOutcome(types, ignore_name_conflicts, def.name, def.rust, def.type_id)
  IN  /\ last' = [def |-> d, outcome |-> out]
      /\ IF out = "build"
         THEN /\ types' = Put(types, def.name, FakeType)
              /\ stack' = Append(stk, Frame(d))
              /\ invoked' = [invoked EXCEPT ![def.name] = @ + 1]
              /\ status' = status
         ELSE IF out \in {"NameConflict", "KindConflict"}
              THEN /\ status' = out
                   /\ UNCHANGED <<types, stack, invoked>>
              ELSE /\ stack' = stk
                   /\ UNCHANGED <<types, invoked, status>>

Top == stack[Len(stack)]
TopDef == Defs[Top.def]
Running == stack # <<>> /\ status = "ok"
Advanced == [stack EXCEPT ![Len(stack)].pc = @ + 1]

\* The front-end starts a registration: create_type_info of one definition.
Register(d) ==
  /\ phase = "register" /\ status = "ok" /\ stack = <<>>
  /\ Cardinality(driven \cup {d}) <= MaxCalls
  /\ Compiles(d)
  /\ driven' = driven \cup {d}
  /\ CreateType(d, stack)
  /\ asked' = NoQuery
  /\ UNCHANGED <<requests, config, implements, enable_federation, phase, nkeys, first>>

\* The running builder registers a type it references.
BuilderCall ==
  /\ Running
  /\ Top.pc <= Len(TopDef.ops)
  /\ TopDef.ops[Top.pc].op = "reg"
  /\ CreateType(TopDef.ops[Top.pc].def, Advanced)
  /\ UNCHANGED <<config, asked, requests, implements, enable_federation, phase, driven, nkeys, first>>

\* Registry::add_implements
\* add_implements that stores the set of the one interface
add_implements_Replace(impl, ty, interface) == Put(impl, ty, {interface})

add_implements(impl, ty, interface) ==
  IF ty \in DOMAIN impl
  THEN [impl EXCEPT ![ty] = @ \cup {interface}]
  ELSE Put(impl, ty, {interface})

\* Registry::create_fake_output_type after its create_type_info: the clone of the
\* stored type, whose possible types the union extends its own with when the
\* clone is a MetaType::Union
FlattenedPossibleTypes(tys, name) ==
  IF tys[name].type_id = "Union" THEN tys[name].possible_types ELSE {}

\* The running builder does a step that is not a registration: a union inserts a
\* direct member's name or extends with a flattened member's possible types, an
\* interface records an implements edge.
BuilderLocal ==
  /\ Running
  /\ Top.pc <= Len(TopDef.ops)
  /\ LET o == TopDef.ops[Top.pc]
         n == Defs[o.def].name
     IN  /\ o.op # "reg"
         /\ stack' = [Advanced EXCEPT ![Len(stack)].acc =
                         IF o.op = "insert" THEN @ \cup {n}
                         ELSE IF o.op = "extend" THEN @ \cup FlattenedPossibleTypes(types, n)
                         ELSE @]
         /\ implements' = IF o.op = "implements"
                          THEN add_implements(implements, n, TopDef.name)
                          ELSE implements
  /\ last' = NoCall
  /\ UNCHANGED <<config, asked, requests, types, enable_federation, status, phase, driven, invoked, nkeys, first>>

\* a builder that returns the placeholder
BuilderResult_Placeholder(fr) == FakeType

\* The MetaType a builder returns: a union's possible types are the ones it collected
BuilderResult(fr) ==
  IF Defs[fr.def].type_id = "Union"
  THEN [Defs[fr.def].desc EXCEPT !.possible_types = fr.acc]
  ELSE Defs[fr.def].desc

\* The builder returns and create_type overwrites the placeholder with its result.
BuilderReturn ==
  /\ Running
  /\ Top.pc > Len(TopDef.ops)
  /\ types' = [types EXCEPT ![TopDef.name] = BuilderResult(Top)]
  /\ stack' = SubSeq(stack, 1, Len(stack) - 1)
  /\ last' = NoCall
  /\ UNCHANGED <<config, asked, requests, implements, enable_federation, status, phase, driven, invoked, nkeys, first>>

----------------------------------------------------------------------------
\* #[derive(Union)]

\* The derive macro expands an enum when the program is compiled, before
\* anything is registered.
Generate(d) ==
  /\ phase = "register" /\ status = "ok" /\ driven = {} /\ stack = <<>>
  /\ asked' = [op |-> "generate", arg |-> d, result |-> derive_union(Defs[d].members)]
  /\ UNCHANGED <<requests, config, types, implements, enable_federation, stack, status, phase,
                 driven, invoked, nkeys, last, first>>

----------------------------------------------------------------------------
\* Registry::add_keys

\* add_keys that sets the key list to the one literal
add_keys_Overwrite(tys, ty, keys) ==
  IF ty \in DOMAIN tys /\ tys[ty].type_id \in {"Object", "Interface"}
  THEN [tys EXCEPT ![ty].keys = {<<keys>>}]
  ELSE tys

add_keys(tys, ty, keys) ==
  IF ty \in DOMAIN tys /\ tys[ty].type_id \in {"Object", "Interface"}
  THEN [tys EXCEPT ![ty].keys = IF @ = {} THEN {<<keys>>}
                                ELSE {Append(all_keys, keys) : all_keys \in @}]
  ELSE tys

\* The front-end (a builder included) calls add_keys during the registration pass.
AddKeys(ty, keys) ==
  /\ phase = "register" /\ status = "ok"
  /\ nkeys < MaxKeys
  /\ keys = KeyLiteralAfter(IF ty \in DOMAIN types
                            THEN Cardinality(UNION {DOMAIN ks : ks \in types[ty].keys})
                            ELSE 0)
  /\ nkeys' = nkeys + 1
  /\ types' = add_keys(types, ty, keys)
  /\ last' = NoCall
  /\ UNCHANGED <<config, asked, requests, implements, enable_federation, stack, status, phase, driven, invoked, first>>

----------------------------------------------------------------------------
\* Federation

ServiceType ==
  [MetaType("Object", "_Service", {"async_graphql::federation::Service"})
     EXCEPT !.fields = "sdl" :> MetaField(StringTy, NoArgs)]

EntityType(possible_types) ==
  [MetaType("Union", "_Entity", {"async_graphql::federation::Entity"})
     EXCEPT !.possible_types = possible_types]

ServiceField == MetaField(NonNull(Named("_Service")), NoArgs)

EntitiesField ==
  MetaField(NonNull(List(Named("_Entity"))),
            "representations" :> MetaInputValue(NonNull(List(NonNull(Named("_Any"))))))

\* fields.insert(..) on the query root, when the query root is a MetaType::Object
InsertRootField(tys, q, name, field) ==
  IF tys[q].type_id = "Object"
  THEN [tys EXCEPT ![q].fields = Put(@, name, field)]
  ELSE tys

\* create_entity_type_and_root_field that collects the Objects with keys only
create_entity_type_and_root_field_ObjectsOnly(tys, q) ==
  LET possible_types ==
        {tys[n].name : n \in {m \in DOMAIN tys : IsKeyed(tys[m]) /\ tys[m].type_id = "Object"}}
      t1 == InsertRootField(tys, q, "_service", ServiceField)
  IN  IF possible_types # {}
      THEN InsertRootField(Put(t1, "_Entity", EntityType(possible_types)),
                           q, "_entities", EntitiesField)
      ELSE t1

\* create_entity_type_and_root_field without the test for an empty _Entity
create_entity_type_and_root_field_AlwaysEntity(tys, q) ==
  LET possible_types == {tys[n].name : n \in {m \in DOMAIN tys : IsKeyed(tys[m])}}
  IN  InsertRootField(
          Put(InsertRootField(tys, q, "_service", ServiceField),
              "_Entity", EntityType(possible_types)),
          q, "_entities", EntitiesField)

\* create_entity_type_and_root_field that does not add the _service root field
create_entity_type_and_root_field_NoServiceField(tys, q) ==
  LET possible_types == {tys[n].name : n \in {m \in DOMAIN tys : IsKeyed(tys[m])}}
  IN  IF possible_types # {}
      THEN InsertRootField(Put(tys, "_Entity", EntityType(possible_types)),
                           q, "_entities", EntitiesField)
      ELSE tys

\* Registry::create_entity_type_and_root_field
create_entity_type_and_root_field(tys, q) ==
  LET possible_types == {tys[n].name : n \in {m \in DOMAIN tys : IsKeyed(tys[m])}}
      t1 == InsertRootField(tys, q, "_service", ServiceField)
  IN  IF possible_types # {}
      THEN InsertRootField(Put(t1, "_Entity", EntityType(possible_types)),
                           q, "_entities", EntitiesField)
      ELSE t1

\* <Any as InputType>::create_type_info: create_type of a scalar, whose builder
\* registers nothing
RegisterAny(tys, ignore) ==
  IF CreateTypeOutcome(tys, ignore, AnyDef.name, AnyDef.rust, AnyDef.type_id) = "build"
  THEN Put(tys, AnyDef.name, AnyDef.desc)
  ELSE tys

\* Registry::create_federation_types
create_federation_types(tys, q, ignore) ==
  create_entity_type_and_root_field(
      Put(RegisterAny(tys, ignore), "_Service", ServiceType), q)

\* The schema builder's decision to run the federation pass: federation was
\* enabled by the schema author, or some type has keys.
RunsFederation(ef, tys) == ef \/ has_entities(tys)

\* The end of the registration pass: the schema builder, with federation enabled
\* or not, runs the federation pass if it applies.  The query root is registered
\* by then (create_entity_type_and_root_field unwraps it).
FederationPass ==
  /\ phase = "register" /\ status = "ok" /\ stack = <<>>
  /\ query_type \in DOMAIN types
  /\ \E ef \in BOOLEAN :
       /\ enable_federation' = ef
       /\ types' = IF RunsFederation(ef, types)
                   THEN create_federation_types(types, query_type, ignore_name_conflicts)
                   ELSE types
  /\ phase' = "federated"
  /\ last' = NoCall
  /\ UNCHANGED <<config, asked, requests, implements, stack, status, driven, invoked, nkeys, first>>

----------------------------------------------------------------------------
\* Registry::remove_unused_types

RECURSIVE traverse_type(_, _, _)
RECURSIVE traverse_types(_, _, _)
RECURSIVE traverse_fields(_, _, _, _)
RECURSIVE traverse_input_values(_, _, _, _)

\* fn traverse_input_value
traverse_input_value(tys, used_types, input_value) ==
  traverse_type(tys, used_types, as_key(concrete_typename(input_value.ty)))

\* for arg in args.values() { traverse_input_value(..) }
traverse_input_values(tys, used_types, values, todo) ==
  IF todo = {} THEN used_types
  ELSE LET k == CHOOSE x \in todo : TRUE
       IN  traverse_input_values(tys, traverse_input_value(tys, used_types, values[k]),
                                 values, todo \ {k})

\* traverse_field that does not look at the field's arguments
traverse_field_NoArgs(tys, used_types, field) ==
  traverse_type(tys, used_types, as_key(concrete_typename(field.ty)))

\* fn traverse_field
traverse_field(tys, used_types, field) ==
  traverse_input_values(
      tys, traverse_type(tys, used_types, as_key(concrete_typename(field.ty))),
      field.args, DOMAIN field.args)

\* for field in fields.values() { traverse_field(..) }
traverse_fields(tys, used_types, fields, todo) ==
  IF todo = {} THEN used_types
  ELSE LET k == CHOOSE x \in todo : TRUE
       IN  traverse_fields(tys, traverse_field(tys, used_types, fields[k]),
                           fields, todo \ {k})

\* for type_name in .. { traverse_type(..) }
traverse_types(tys, used_types, todo) ==
  IF todo = {} THEN used_types
  ELSE LET k == CHOOSE x \in todo : TRUE
       IN  traverse_types(tys, traverse_type(tys, used_types, k), todo \ {k})

\* fn traverse_type
traverse_type(tys, used_types, type_name) ==
  IF type_name \in used_types THEN used_types
  ELSE IF type_name \in DOMAIN tys
  THEN LET ty == tys[type_name]
           used == used_types \cup {type_name}
       IN  CASE ty.type_id = "Object" ->
                  traverse_fields(tys, used, ty.fields, DOMAIN ty.fields)
             [] ty.type_id = "Interface" ->
                  traverse_types(tys,
                                 traverse_fields(tys, used, ty.fields, DOMAIN ty.fields),
                                 ty.possible_types)
             [] ty.type_id = "Union" ->
                  traverse_types(tys, used, ty.possible_types)
             [] ty.type_id = "InputObject" ->
                  traverse_input_values(tys, used, ty.input_fields, DOMAIN ty.input_fields)
             [] OTHER -> used
  ELSE used_types

RECURSIVE traverse_directives(_, _, _, _)
\* for directive in self.directives.values() { for arg in directive.args.values() {..} }
traverse_directives(tys, used_types, dirs, todo) ==
  IF todo = {} THEN used_types
  ELSE LET k == CHOOSE x \in todo : TRUE
       IN  traverse_directives(
               tys,
               traverse_input_values(tys, used_types, dirs[k].args, DOMAIN dirs[k].args),
               dirs, todo \ {k})

\* the used_types of remove_unused_types: the directives' arguments, the roots,
\* the types with keys
\* used types that are the roots and what some stored type refers to
used_types_of_Referenced(tys, dirs, q, m, s) ==
  ({q} \cup m \cup s) \cup UNION {traverse_type(tys, {}, n) \ {n} : n \in DOMAIN tys}

used_types_of(tys, dirs, q, m, s) ==
  LET u1 == traverse_directives(tys, {}, dirs, DOMAIN dirs)
      u2 == traverse_types(tys, u1, {q} \cup m \cup s)
  IN  traverse_types(tys, u2, {tys[n].name : n \in {k \in DOMAIN tys : IsKeyed(tys[k])}})

\* Registry::remove_unused_types
remove_unused_types(tys, dirs, q, m, s) ==
  LET used_types == used_types_of(tys, dirs, q, m, s)
      unused_types == {tys[n].name : n \in
                         {k \in DOMAIN tys : /\ ~is_system_type(tys[k].name)
                                             /\ tys[k].name \notin used_types}}
  IN  Remove(tys, unused_types)

\* The schema builder prunes the registry after the federation pass; the method
\* is public and may be called again on the pruned registry before the registry
\* is read.
RemoveUnusedTypes ==
  /\ phase = "federated" \/ (phase = "pruned" /\ asked = NoQuery)
  /\ status = "ok"
  /\ types' = remove_unused_types(types, directives, query_type, mutation_type,
                                  subscription_type)
  /\ phase' = "pruned"
  /\ last' = NoCall
  /\ UNCHANGED <<config, asked, requests, implements, enable_federation, stack, status, driven, invoked,
                 nkeys, first>>

----------------------------------------------------------------------------
\* The functions that only read the registry, called by the query-serving layer
\* once the registry is built

\* The calls change nothing, so a behaviour is followed up to its first call.
Serving == phase = "pruned" /\ status = "ok" /\ asked = NoQuery

\* a call of a function that only reads: nothing but the record of the call changes
Answer(op, arg, result) ==
  /\ asked' = [op |-> op, arg |-> arg, result |-> result]
  /\ UNCHANGED <<requests, config, types, implements, enable_federation, stack, status, phase,
                 driven, invoked, nkeys, last, first>>

----------------------------------------------------------------------------
\* Registry::find_visible_types

\* Registry.types is a BTreeMap: its values() come in the byte order of the names
BTreeOrder ==
  <<"A", "B", "Date", "E", "H", "I", "In", "J", "Mutation", "P", "Q", "Query", "String",
    "X", "Y", "Z", "_Any", "_Entity", "_Service", "__TypeKind">>

RECURSIVE visible_traverse_type(_, _, _, _)
RECURSIVE visible_traverse_types(_, _, _, _)
RECURSIVE visible_traverse_fields(_, _, _, _, _)
RECURSIVE visible_traverse_input_values(_, _, _, _, _)

\* find_visible_types: fn traverse_input_value
visible_traverse_input_value(ctx, tys, visible_types, input_value) ==
  IF ~is_visible(ctx, input_value.visible) THEN visible_types
  ELSE visible_traverse_type(ctx, tys, visible_types,
                             as_key(concrete_typename(input_value.ty)))

\* for arg in args.values() { traverse_input_value(..) }
visible_traverse_input_values(ctx, tys, visible_types, values, todo) ==
  IF todo = {} THEN visible_types
  ELSE LET k == CHOOSE x \in todo : TRUE
       IN  visible_traverse_input_values(
               ctx, tys, visible_traverse_input_value(ctx, tys, visible_types, values[k]),
               values, todo \ {k})

\* traverse_field of find_visible_types without the test of the field's visibility
visible_traverse_field_NoCheck(ctx, tys, visible_types, field) ==
  visible_traverse_input_values(
      ctx, tys,
      visible_traverse_type(ctx, tys, visible_types, as_key(concrete_typename(field.ty))),
      field.args, DOMAIN field.args)

\* find_visible_types: fn traverse_field
visible_traverse_field(ctx, tys, visible_types, field) ==
  IF ~is_visible(ctx, field.visible) THEN visible_types
  ELSE visible_traverse_input_values(
           ctx, tys,
           visible_traverse_type(ctx, tys, visible_types, as_key(concrete_typename(field.ty))),
           field.args, DOMAIN field.args)

\* for field in fields.values() { traverse_field(..) }
visible_traverse_fields(ctx, tys, visible_types, fields, todo) ==
  IF todo = {} THEN visible_types
  ELSE LET k == CHOOSE x \in todo : TRUE
       IN  visible_traverse_fields(
               ctx, tys, visible_traverse_field(ctx, tys, visible_types, fields[k]),
               fields, todo \ {k})

\* for type_name in .. { traverse_type(..) }
visible_traverse_types(ctx, tys, visible_types, todo) ==
  IF todo = {} THEN visible_types
  ELSE LET k == CHOOSE x \in todo : TRUE
       IN  visible_traverse_types(ctx, tys,
                                  visible_traverse_type(ctx, tys, visible_types, k),
                                  todo \ {k})

\* find_visible_types: fn traverse_type
visible_traverse_type(ctx, tys, visible_types, type_name) ==
  IF type_name \in visible_types THEN visible_types
  ELSE IF type_name \in DOMAIN tys
  THEN LET ty == tys[type_name]
           seen == visible_types \cup {type_name}
       IN  IF ~is_visible(ctx, ty.visible) THEN visible_types
           ELSE CASE ty.type_id = "Object" ->
                       visible_traverse_fields(ctx, tys, seen, ty.fields, DOMAIN ty.fields)
                  [] ty.type_id = "Interface" ->
                       visible_traverse_types(
                           ctx, tys,
                           visible_traverse_fields(ctx, tys, seen, ty.fields, DOMAIN ty.fields),
                           ty.possible_types)
                  [] ty.type_id = "Union" ->
                       visible_traverse_types(ctx, tys, seen, ty.possible_types)
                  [] ty.type_id = "InputObject" ->
                       visible_traverse_input_values(ctx, tys, seen, ty.input_fields,
                                                     DOMAIN ty.input_fields)
                  [] OTHER -> seen
  ELSE visible_types

RECURSIVE visible_traverse_directives(_, _, _, _, _)
\* for directive in self.directives.values() { if is_visible(..) { for arg .. } }
visible_traverse_directives(ctx, tys, visible_types, dirs, todo) ==
  IF todo = {} THEN visible_types
  ELSE LET k == CHOOSE x \in todo : TRUE
       IN  visible_traverse_directives(
               ctx, tys,
               IF is_visible(ctx, dirs[k].visible)
               THEN visible_traverse_input_values(ctx, tys, visible_types, dirs[k].args,
                                                  DOMAIN dirs[k].args)
               ELSE visible_types,
               dirs, todo \ {k})

\* the visible_types of find_visible_types before its loop over the interfaces:
\* the visible directives' arguments, the roots, the types with keys
\* the start of the traversal without the mutation root
visible_from_roots_NoMutation(tys, dirs, q, m, s, ctx) ==
  LET v1 == visible_traverse_directives(ctx, tys, {}, dirs, DOMAIN dirs)
      v2 == visible_traverse_types(ctx, tys, v1, {q} \cup s)
  IN  visible_traverse_types(ctx, tys, v2,
                             {tys[n].name : n \in {k \in DOMAIN tys : IsKeyed(tys[k])}})

visible_from_roots(tys, dirs, q, m, s, ctx) ==
  LET v1 == visible_traverse_directives(ctx, tys, {}, dirs, DOMAIN dirs)
      v2 == visible_traverse_types(ctx, tys, v1, {q} \cup m \cup s)
  IN  visible_traverse_types(ctx, tys, v2,
                             {tys[n].name : n \in {k \in DOMAIN tys : IsKeyed(tys[k])}})

\* the test of the loop over the interfaces: a visible Interface that is not
\* in visible_types and has a possible type in it
IsPartlyVisibleInterface(ctx, visible_types, ty) ==
  /\ ty.type_id = "Interface"
  /\ is_visible(ctx, ty.visible)
  /\ ty.name \notin visible_types
  /\ \E type_name \in ty.possible_types : type_name \in visible_types

RECURSIVE visible_interfaces(_, _, _, _)
\* for ty in self.types.values() { if let MetaType::Interface .. }: one pass over
\* the map, from its i-th name on
visible_interfaces(ctx, tys, visible_types, i) ==
  IF i > Len(BTreeOrder) THEN visible_types
  ELSE IF /\ BTreeOrder[i] \in DOMAIN tys
          /\ IsPartlyVisibleInterface(ctx, visible_types, tys[BTreeOrder[i]])
       THEN visible_interfaces(
                ctx, tys,
                visible_traverse_type(ctx, tys, visible_types, tys[BTreeOrder[i]].name),
                i + 1)
       ELSE visible_interfaces(ctx, tys, visible_types, i + 1)

\* find_visible_types that returns the traversed names only
find_visible_types_NoSystemTypes(tys, dirs, q, m, s, ctx) ==
  LET visible_types ==
        visible_interfaces(ctx, tys, visible_from_roots(tys, dirs, q, m, s, ctx), 1)
  IN  {tys[n].name : n \in {k \in DOMAIN tys : tys[k].name \in visible_types}}

\* Registry::find_visible_types
find_visible_types(tys, dirs, q, m, s, ctx) ==
  LET visible_types ==
        visible_interfaces(ctx, tys, visible_from_roots(tys, dirs, q, m, s, ctx), 1)
  IN  {tys[n].name : n \in {k \in DOMAIN tys : \/ is_system_type(tys[k].name)
                                               \/ tys[k].name \in visible_types}}

\* The serving layer asks for the types a viewer sees.
FindVisibleTypes(ctx) ==
  /\ Serving
  /\ Answer("find_visible_types", ctx,
            find_visible_types(types, directives, query_type, mutation_type,
                               subscription_type, ctx))

----------------------------------------------------------------------------
\* MetaType::type_overlap

\* MetaType::is_abstract
is_abstract(ty) == ty.type_id \in {"Interface", "Union"}

\* MetaType::is_possible_type
is_possible_type(ty, type_name) ==
  CASE ty.type_id \in {"Interface", "Union"} -> type_name \in ty.possible_types
    [] ty.type_id = "Object" -> ty.name = type_name
    [] OTHER -> FALSE

\* MetaType::possible_types
possible_types(ty) == IF is_abstract(ty) THEN {ty.possible_types} ELSE {}

\* type_overlap that answers false for a concrete self
type_overlap_AbstractSelf(tys, a, b) ==
  LET self == tys[a]
      ty == tys[b]
  IN  IF a = b THEN TRUE
      ELSE CASE is_abstract(self) /\ is_abstract(ty) ->
                  \E pts \in possible_types(self) : \E type_name \in pts :
                       is_possible_type(ty, type_name)
             [] is_abstract(self) /\ ~is_abstract(ty) -> is_possible_type(self, ty.name)
             [] OTHER -> FALSE

\* type_overlap without the test std::ptr::eq(self, ty)
type_overlap_NoIdentity(tys, a, b) ==
  LET self == tys[a]
      ty == tys[b]
  IN  CASE is_abstract(self) /\ is_abstract(ty) ->
             \E pts \in possible_types(self) : \E type_name \in pts :
                  is_possible_type(ty, type_name)
        [] is_abstract(self) /\ ~is_abstract(ty) -> is_possible_type(self, ty.name)
        [] ~is_abstract(self) /\ is_abstract(ty) -> is_possible_type(ty, self.name)
        [] OTHER -> FALSE

\* MetaType::type_overlap, of the descriptors the store holds under a and under b:
\* two references into the store are the same pointer when they are the same entry
type_overlap(tys, a, b) ==
  LET self == tys[a]
      ty == tys[b]
  IN  IF a = b THEN TRUE
      ELSE CASE is_abstract(self) /\ is_abstract(ty) ->
                  \E pts \in possible_types(self) : \E type_name \in pts :
                       is_possible_type(ty, type_name)
             [] is_abstract(self) /\ ~is_abstract(ty) -> is_possible_type(self, ty.name)
             [] ~is_abstract(self) /\ is_abstract(ty) -> is_possible_type(ty, self.name)
             [] OTHER -> FALSE

\* the names the serving layer compares
OverlapNames == {"A", "I", "J", "X", "Y", "Z", "In", "E"}

\* The serving layer asks whether two types of the store overlap.
TypeOverlap(a, b) ==
  /\ Serving
  /\ {a, b} \subseteq DOMAIN types
  /\ Answer("type_overlap", <<a, b>>, type_overlap(types, a, b))

----------------------------------------------------------------------------
\* OutputType::introspection_type_name of a derived union

RECURSIVE ValuesOf(_, _)
\* The values of a Rust type, unions nested at most depth deep: a value of an
\* object type, or a variant of the enum with a value of the variant's type
ValuesOf(d, depth) ==
  IF d \notin UnionIds THEN {[def |-> d]}
  ELSE IF depth = 0 THEN {}
  ELSE UNION {{[def |-> d, variant |-> i, obj |-> v]
                : v \in ValuesOf(Resolve(Defs[d].members[i].ty), depth - 1)}
              : i \in 1..Len(Defs[d].members)}

UnionValues == UNION {ValuesOf(d, MaxNesting) : d \in {u \in UnionIds : Compiles(u)}}

\* <T as OutputType>::type_name: the gql_typename of the derive
gql_typename(d) == Defs[d].name

RECURSIVE introspection_type_name(_)
\* introspection_type_name that answers with the type name of the flattened
\* member
introspection_type_name_OfMember(self) ==
  gql_typename(Resolve(Defs[self.def].members[self.variant].ty))

\* union.rs: fn introspection_type_name, the match on self
introspection_type_name(self) ==
  LET member == Defs[self.def].members[self.variant]
  IN  IF ~member.flatten
      THEN gql_typename(Resolve(member.ty))
      ELSE introspection_type_name(self.obj)

\* The serving layer asks for the concrete type name of a union value.
IntrospectionTypeName(v) ==
  /\ Serving
  /\ Answer("introspection_type_name", v, introspection_type_name(v))

----------------------------------------------------------------------------
\* Type-reference strings and Registry::concrete_type_by_name

\* the names the type references of the model are made of
RefNames == {"Int", "X", "Nope"}

RECURSIVE TypeRefs(_)
\* the well-formed type references with at most depth nested lists: a name or a
\* list of a type reference, either of them with or without a trailing "!"
TypeRefs(depth) ==
  LET inner == IF depth = 0 THEN {Named(n) : n \in RefNames}
               ELSE {Named(n) : n \in RefNames} \cup {List(t) : t \in TypeRefs(depth - 1)}
  IN  inner \cup {NonNull(t) : t \in inner}

\* Registry::concrete_type_by_name
concrete_type_by_name(tys, type_name) ==
  LET key == as_key(concrete_typename(type_name))
  IN  IF key \in DOMAIN tys THEN {tys[key]} ELSE {}

\* A type reference is parsed and written again; the string is no part of the
\* registry, and this happens before anything is registered.
Render(type_name) ==
  /\ phase = "register" /\ status = "ok" /\ driven = {} /\ stack = <<>>
  /\ asked' = [op |-> "create", arg |-> type_name,
               result |-> [parsed |-> create(type_name), text |-> fmt(create(type_name))]]
  /\ UNCHANGED <<requests, config, types, implements, enable_federation, stack, status, phase,
                 driven, invoked, nkeys, last, first>>

RECURSIVE is_subtype(_, _)
\* MetaTypeName::is_subtype: self is the super-type
is_subtype(self, sub) ==
  CASE self.tag \in {"NonNull", "Named"} /\ sub.tag = "NonNull" ->
         is_subtype(create(self.name), create(sub.name))
    [] self.tag = "Named" /\ sub.tag = "Named" -> self.name = sub.name
    [] self.tag = "List" /\ sub.tag = "List" ->
         is_subtype(create(self.name), create(sub.name))
    [] OTHER -> FALSE

\* nothing has been registered and nothing has been asked
Unregistered ==
  /\ phase = "register" /\ status = "ok" /\ driven = {} /\ stack = <<>>
  /\ asked = NoQuery /\ first = {}

\* Two type references are parsed and compared, as the validation of a variable
\* against the type of an argument does; the strings are no part of the
\* registry, and this happens before anything is registered.
IsSubtype(super_type, sub_type) ==
  /\ Unregistered
  /\ asked' = [op |-> "is_subtype", arg |-> <<super_type, sub_type>>,
               result |-> is_subtype(create(super_type), create(sub_type))]
  /\ UNCHANGED <<requests, config, types, implements, enable_federation, stack, status, phase,
                 driven, invoked, nkeys, last, first>>

\* The serving layer resolves a type reference to its descriptor.
ConcreteTypeByName(type_name) ==
  /\ Serving
  /\ Answer("concrete_type_by_name", type_name, concrete_type_by_name(types, type_name))

----------------------------------------------------------------------------
Next ==
  \/ \E d \in DefIds : Register(d)
  \/ \E d \in UnionIds : Generate(d)
  \/ BuilderCall
  \/ BuilderLocal
  \/ BuilderReturn
  \/ \E ty \in KeyNames, keys \in KeyLiterals : AddKeys(ty, keys)
  \/ FederationPass
  \/ RemoveUnusedTypes
  \/ \E ctx \in Viewers : FindVisibleTypes(ctx)
  \/ \E a \in OverlapNames, b \in OverlapNames : TypeOverlap(a, b)
  \/ \E v \in UnionValues : IntrospectionTypeName(v)
  \/ \E type_name \in TypeRefs(MaxNesting) : Render(type_name)
  \/ \E type_name \in TypeRefs(MaxNesting) : ConcreteTypeByName(type_name)
  \/ /\ Unregistered
     /\ \E super_type \in TypeRefs(MaxNesting), sub_type \in TypeRefs(MaxNesting) :
           IsSubtype(super_type, sub_type)

Spec == Init /\ [][Next]_vars

----------------------------------------------------------------------------
\* Properties of create_type

\* the create_type call a step makes: every step that is not a create_type call
\* sets last to NoCall, so a step that ends with last.def = d is a call for d
Calls(d) == last'.def = d

Bound(d) == Defs[d].name \in DOMAIN types
Finished(ty) == ty.rust_typename # {FakeTypename}
\* the name is bound to a finished descriptor that carries an origin identity
\* other than the requested one
DiffersInIdentity(d) ==
  /\ Bound(d) /\ Finished(types[Defs[d].name])
  /\ \E p \in rust_typename(types[Defs[d].name]) : p # Defs[d].rust
OnStack(n) == \E i \in 1..Len(stack) : Defs[stack[i].def].name = n

\* What is left to do of the registration: the names not yet in the store, each
\* worth more than any builder's steps, and the steps left to the running builders.
RECURSIVE StepsLeft(_)
StepsLeft(stk) ==
  IF stk = <<>> THEN 0
  ELSE (Len(Defs[Head(stk).def].ops) + 2 - Head(stk).pc) + StepsLeft(Tail(stk))
LongestBuilder == CHOOSE n \in 0..Cardinality(DefIds) * Cardinality(DefIds) :
  /\ \A d \in DefIds : Len(Defs[d].ops) <= n
  /\ \E d \in DefIds : Len(Defs[d].ops) = n
Measure ==
  Cardinality(Names \ DOMAIN types) * (LongestBuilder + 2) + StepsLeft(stack)

C1_AtMostOnce == \A n \in Names : invoked[n] <= 1
C1_Step ==
  /\ \A d \in DefIds :
       Calls(d) /\ status = "ok" /\ OnStack(Defs[d].name)
         => /\ invoked' = invoked
            /\ types' = types
            /\ status' = "ok"
            /\ Len(stack') = Len(stack)
  /\ stack' # stack => Measure' < Measure
  /\ phase = "register" /\ phase' = "register" => Measure' <= Measure

\* C1: registration terminates and calls each name's builder at most once: every
\* step of a registration strictly decreases a natural-number measure that no
\* other step of the pass increases, no name's builder is called twice, and a
\* create_type call for a name whose builder is still running returns at once,
\* without calling a builder and without touching the store.
C1_Terminates == [](C1_AtMostOnce) /\ [][C1_Step]_vars

\* a recursive call has just seen the placeholder of a builder that is running
C1_Witness ==
  /\ last.outcome = "sentinel"
  /\ OnStack(Defs[last.def].name)
  /\ invoked[Defs[last.def].name] = 1
  /\ Len(stack) >= 2

\* C2: create_type for a name bound to a finished descriptor, with the same
\* origin identity and the same kind, calls no builder and leaves the store as
\* it is, the name still bound to its descriptor.
C2_Idempotent ==
  [][\A d \in DefIds :
       /\ Calls(d) /\ status = "ok"
       /\ Bound(d) /\ Finished(types[Defs[d].name])
       /\ ~DiffersInIdentity(d)
       /\ types[Defs[d].name].type_id = Defs[d].type_id
       => /\ types' = types
          /\ invoked' = invoked
          /\ status' = "ok"
          /\ Len(stack') = Len(stack)
          /\ Defs[d].name \in DOMAIN types']_vars

\* a definition was registered again, at the top level, after its builder returned
C2_Witness ==
  /\ last.outcome = "return" /\ last.def \in DefIds
  /\ stack = <<>>
  /\ invoked[Defs[last.def].name] = 1
  /\ Defs[last.def].name \in DOMAIN types
  /\ types[Defs[last.def].name].rust_typename = {Defs[last.def].rust}
  /\ types[Defs[last.def].name].type_id = Defs[last.def].type_id

\* C3: create_type for a name bound to a finished descriptor of another origin
\* identity, the name not in ignore_name_conflicts, panics with the name
\* conflict and leaves the store unchanged.
C3_NameConflict ==
  [][\A d \in DefIds :
       /\ Calls(d) /\ status = "ok"
       /\ DiffersInIdentity(d)
       /\ Defs[d].name \notin ignore_name_conflicts
       => /\ status' = "NameConflict"
          /\ types' = types]_vars

\* the build has ended with the name conflict of a second definition of Y
C3_Witness ==
  /\ status = "NameConflict" /\ last.outcome = "NameConflict"
  /\ Defs[last.def].name = "Y"
  /\ \E p \in types["Y"].rust_typename : p # Defs[last.def].rust /\ p # FakeTypename

\* C4 (as claimed): create_type for a name bound to a finished descriptor of
\* another kind panics with the kind conflict whenever the identity check does
\* not fail first, whatever the kind of the existing descriptor.
C4_KindConflict ==
  [][\A d \in DefIds :
       /\ Calls(d) /\ status = "ok"
       /\ Bound(d) /\ Finished(types[Defs[d].name])
       /\ types[Defs[d].name].type_id # Defs[d].type_id
       /\ ~(DiffersInIdentity(d) /\ Defs[d].name \notin ignore_name_conflicts)
       => status' = "KindConflict"]_vars

\* C5: only the whitelist bypasses the name conflict.  For a name in
\* ignore_name_conflicts, create_type with another origin identity and the same
\* kind does not panic, calls no builder and keeps the descriptor registered
\* first; for a name not in it, create_type with another origin identity never
\* returns normally.
C5_WhitelistOnly ==
  [][\A d \in DefIds :
       Calls(d) /\ status = "ok" /\ DiffersInIdentity(d)
       => IF Defs[d].name \in ignore_name_conflicts
          THEN types[Defs[d].name].type_id = Defs[d].type_id
               => /\ status' = "ok"
                  /\ types' = types
                  /\ invoked' = invoked
                  /\ Len(stack') = Len(stack)
          ELSE status' # "ok"]_vars

\* the whitelisted name X was registered a second time from another Rust type,
\* and the store still holds the descriptor registered first
C5_Witness ==
  /\ status = "ok" /\ last.outcome = "return"
  /\ Defs[last.def].name = "X"
  /\ "X" \in ignore_name_conflicts
  /\ \E p \in types["X"].rust_typename : p # Defs[last.def].rust /\ p # FakeTypename
  /\ types["X"].type_id = Defs[last.def].type_id

----------------------------------------------------------------------------
\* Properties of add_keys and add_implements

\* the registry but for the type store
beside_types == <<config, implements, enable_federation>>

\* the key literals of a descriptor, in the order of its list
KeyList(ty) == IF ty.keys = {} THEN <<>> ELSE CHOOSE ks \in ty.keys : TRUE

\* C21: add_keys on a name bound to an Object or Interface appends the literal at
\* the end of that descriptor's key list, the list created on first use, and
\* changes nothing else; on a name bound to another kind, or on no name of the
\* store, it leaves the registry as it is.
C21_AddKeys ==
  [][\A ty \in KeyNames, keys \in KeyLiterals :
       AddKeys(ty, keys) =>
         /\ UNCHANGED beside_types
         /\ IF ty \in DOMAIN types /\ types[ty].type_id \in {"Object", "Interface"}
            THEN /\ DOMAIN types' = DOMAIN types
                 /\ \A n \in DOMAIN types \ {ty} : types'[n] = types[n]
                 /\ types'[ty].keys = {Append(KeyList(types[ty]), keys)}
                 /\ [types'[ty] EXCEPT !.keys = {}] = [types[ty] EXCEPT !.keys = {}]
            ELSE types' = types]_vars

\* the object X got a key list with its first literal and then a second literal
\* at the end of it, and the scalar Date, also passed to add_keys, has none
C21_Witness ==
  /\ "X" \in DOMAIN types /\ types["X"].type_id = "Object"
  /\ types["X"].keys = {<<"id", "sku">>}
  /\ nkeys = 2

\* the running builder is at an add_implements call
AtImplements ==
  /\ Running
  /\ Top.pc <= Len(TopDef.ops)
  /\ TopDef.ops[Top.pc].op = "implements"

\* the builder of definition d has made the call at position k of its body
Called(d, k) ==
  \/ \E i \in 1..Len(stack) : stack[i].def = d /\ stack[i].pc > k
  \/ /\ Bound(d) /\ types[Defs[d].name].rust_typename = {Defs[d].rust}
     /\ \A i \in 1..Len(stack) : stack[i].def # d

\* the definitions whose builder calls add_implements, and the names they call
\* it for
InterfaceIds == {d \in DefIds : \E k \in 1..Len(Defs[d].ops) : Defs[d].ops[k].op = "implements"}
ImplementorNames ==
  UNION {{Defs[Defs[d].ops[k].def].name :
            k \in {i \in 1..Len(Defs[d].ops) : Defs[d].ops[i].op = "implements"}}
         : d \in InterfaceIds}

\* the interfaces that add_implements has been called with for the name ty
Passed(ty) ==
  {Defs[d].name : d \in {e \in InterfaceIds :
      \E k \in 1..Len(Defs[e].ops) :
         /\ Defs[e].ops[k].op = "implements"
         /\ Defs[Defs[e].ops[k].def].name = ty
         /\ Called(e, k)}}

\* C22: add_implements records the edge in a many-to-many relation: the
\* interfaces recorded for a type are the ones it has been called with for that
\* type, a call with an edge already recorded changes nothing, and no call
\* touches the type store.
C22_AddImplements ==
  /\ [](phase = "register" =>
          /\ DOMAIN implements = {ty \in ImplementorNames : Passed(ty) # {}}
          /\ \A ty \in DOMAIN implements : implements[ty] = Passed(ty))
  /\ [][AtImplements /\ stack' # stack =>
          LET ty == Defs[TopDef.ops[Top.pc].def].name
              interface == TopDef.name
              before == IF ty \in DOMAIN implements THEN implements[ty] ELSE {}
          IN  /\ types' = types
              /\ DOMAIN implements' = DOMAIN implements \cup {ty}
              /\ implements'[ty] = before \cup {interface}
              /\ \A n \in DOMAIN implements \ {ty} : implements'[n] = implements[n]
              /\ interface \in before => implements' = implements]_vars

\* Z is recorded for the two interfaces H and J, H having passed it twice, and J
\* is recorded for Y as well
C22_Witness ==
  /\ phase = "register" /\ stack = <<>>
  /\ DOMAIN implements = {"Y", "Z"}
  /\ implements["Z"] = {"H", "J"}
  /\ implements["Y"] = {"J"}

\* C23 (as claimed): the kind of a name, once bound to a finished descriptor,
\* does not change: after any step the name is bound to a descriptor of the same
\* kind, or the step is the pruning and the name is gone.
C23_KindKept ==
  [][\A n \in DOMAIN types :
       Finished(types[n]) =>
         \/ n \in DOMAIN types' /\ types'[n].type_id = types[n].type_id
         \/ n \notin DOMAIN types' /\ phase = "federated" /\ phase' = "pruned"]_vars

\* C28 (as claimed): a key literal of the key list of an Object or Interface is
\* not lost during the registration pass: whatever step the pass takes, the
\* name stays bound and the literal stays in the name's key list.
C28_KeysKept ==
  [][phase = "register" /\ phase' = "register" =>
       \A n \in DOMAIN types :
         types[n].type_id \in {"Object", "Interface"} =>
           /\ n \in DOMAIN types'
           /\ \A i \in 1..Len(KeyList(types[n])) :
                \E j \in 1..Len(KeyList(types'[n])) :
                   KeyList(types'[n])[j] = KeyList(types[n])[i]]_vars

----------------------------------------------------------------------------
\* Properties of remove_unused_types and of the federation pass

BracketsAndBangs == {"[", "]", "!"}
\* the names a type reference mentions
Mentioned(t) == {t[i] : i \in 1..Len(t)} \ BracketsAndBangs

\* the types a type refers to: field and argument types, possible types, input
\* field types
RefersTo(ty) ==
  CASE ty.type_id \in {"Object", "Interface"} ->
         UNION {Mentioned(ty.fields[f].ty)
                  \cup UNION {Mentioned(ty.fields[f].args[a].ty) : a \in DOMAIN ty.fields[f].args}
                : f \in DOMAIN ty.fields}
         \cup ty.possible_types
    [] ty.type_id = "Union" -> ty.possible_types
    [] ty.type_id = "InputObject" ->
         UNION {Mentioned(ty.input_fields[f].ty) : f \in DOMAIN ty.input_fields}
    [] OTHER -> {}

KeyedNames(tys) ==
  {n \in DOMAIN tys : /\ tys[n].type_id \in {"Object", "Interface"}
                      /\ \E ks \in tys[n].keys : ks # <<>>}

PruningRoots(tys) ==
  {query_type} \cup mutation_type \cup subscription_type
  \cup KeyedNames(tys)
  \cup UNION {UNION {Mentioned(directives[d].args[a].ty) : a \in DOMAIN directives[d].args}
              : d \in DOMAIN directives}

RECURSIVE ReachableFrom(_, _)
ReachableFrom(tys, S) ==
  LET T == S \cup (UNION {RefersTo(tys[n]) : n \in S} \cap DOMAIN tys)
  IN  IF T = S THEN S ELSE ReachableFrom(tys, T)

Reachable(tys) == ReachableFrom(tys, PruningRoots(tys) \cap DOMAIN tys)

BuiltInNames == DunderNames \cup {"Boolean", "Int", "Float", "String", "ID"}

Prunes == phase = "federated" /\ phase' = "pruned"
Synthesizes == phase = "register" /\ phase' = "federated"

\* C7: remove_unused_types keeps exactly the built-in names and the names
\* reachable from the roots (query, mutation and subscription root, the
\* Objects/Interfaces with keys, the directives' argument types), and leaves the
\* descriptors it keeps as they are.
C7_KeepsReachable ==
  [][Prunes =>
       /\ DOMAIN types' = {n \in DOMAIN types : n \in BuiltInNames \/ n \in Reachable(types)}
       /\ \A n \in DOMAIN types' : types'[n] = types[n]]_vars

\* pruning removed a registered union that nothing refers to, and kept what the
\* query root reaches through fields, arguments, possible types and input fields
C7_Witness ==
  /\ phase = "pruned"
  /\ invoked["B"] = 1 /\ "B" \notin DOMAIN types
  /\ {"Query", "A", "X", "Y", "In", "E", "String"} \subseteq DOMAIN types

\* C8: with at least one Object/Interface with a non-empty key list, the
\* federation pass leaves an Object _Service with the field sdl: String, a Union
\* _Entity whose possible types are exactly the names with keys, and on the
\* query root _service: _Service! and
\* _entities(representations: [_Any!]!): [_Entity]!.
C8_Federation ==
  phase = "federated" /\ KeyedNames(types) # {} =>
    /\ {"_Service", "_Entity", query_type} \subseteq DOMAIN types
    /\ types["_Service"].type_id = "Object"
    /\ DOMAIN types["_Service"].fields = {"sdl"}
    /\ types["_Service"].fields["sdl"].ty = <<"String">>
    /\ types["_Entity"].type_id = "Union"
    /\ types["_Entity"].possible_types = KeyedNames(types)
    /\ {"_service", "_entities"} \subseteq DOMAIN types[query_type].fields
    /\ types[query_type].fields["_service"].ty = <<"_Service", "!">>
    /\ types[query_type].fields["_entities"].ty = <<"[", "_Entity", "]", "!">>
    /\ DOMAIN types[query_type].fields["_entities"].args = {"representations"}
    /\ types[query_type].fields["_entities"].args["representations"].ty
         = <<"[", "_Any", "!", "]", "!">>

\* the federation pass has run over an Object and an Interface with keys
C8_Witness ==
  /\ phase = "federated"
  /\ KeyedNames(types) = {"X", "I"}
  /\ "_Entity" \in DOMAIN types

\* C9 (as claimed): with no Object/Interface with a non-empty key list the
\* federation pass does nothing: no _Service, no _Entity, no _service and no
\* _entities field on the query root.
C9_DoesNothing ==
  phase = "federated" /\ KeyedNames(types) = {} =>
    /\ "_Service" \notin DOMAIN types
    /\ "_Entity" \notin DOMAIN types
    /\ "_service" \notin DOMAIN types[query_type].fields
    /\ "_entities" \notin DOMAIN types[query_type].fields

\* C9 (amended): with no Object/Interface with a non-empty key list the
\* federation pass adds no _Entity type and no _entities field; it leaves the
\* store as it is unless federation is enabled, and then it still adds _Service
\* and the query root's _service field.
C9_NoEntityWithoutKeys ==
  [][Synthesizes /\ KeyedNames(types) = {} =>
       /\ "_Entity" \in DOMAIN types' =>
            "_Entity" \in DOMAIN types /\ types'["_Entity"] = types["_Entity"]
       /\ "_entities" \notin DOMAIN types'[query_type].fields
       /\ IF enable_federation'
          THEN /\ "_Service" \in DOMAIN types'
               /\ "_service" \in DOMAIN types'[query_type].fields
               /\ \A n \in DOMAIN types \ {query_type} : types'[n] = types[n]
          ELSE types' = types]_vars

\* the federation pass has run, enabled, over a store without keys
C9_Witness ==
  /\ phase = "federated"
  /\ enable_federation
  /\ KeyedNames(types) = {}
  /\ "_Service" \in DOMAIN types
  /\ "_service" \in DOMAIN types[query_type].fields

\* C10: after the federation pass over at least one type with keys, pruning
\* keeps _Service, _Entity and every possible type of _Entity.
C10_FederationSurvives ==
  [][Prunes /\ KeyedNames(types) # {} =>
       /\ {"_Service", "_Entity"} \subseteq DOMAIN types'
       /\ \A n \in KeyedNames(types) : n \in DOMAIN types'
       /\ types'["_Entity"].possible_types \subseteq DOMAIN types']_vars

\* pruning has run after the federation pass, and kept an interface with keys
\* that no field of the schema refers to
C10_Witness ==
  /\ phase = "pruned"
  /\ {"_Service", "_Entity", "I"} \subseteq DOMAIN types
  /\ "I" \in types["_Entity"].possible_types

----------------------------------------------------------------------------
\* Properties of find_visible_types

Asked(op) == asked.op = op

\* the descriptor's own visibility predicate is true for the viewer
Seen(ctx, n) == n \in DOMAIN types /\ is_visible(ctx, types[n].visible)

\* the types a type refers to through what the viewer sees of it
VisiblyRefersTo(ctx, ty) ==
  CASE ty.type_id \in {"Object", "Interface"} ->
         UNION {Mentioned(ty.fields[f].ty)
                  \cup UNION {Mentioned(ty.fields[f].args[a].ty)
                              : a \in {b \in DOMAIN ty.fields[f].args :
                                         is_visible(ctx, ty.fields[f].args[b].visible)}}
                : f \in {g \in DOMAIN ty.fields : is_visible(ctx, ty.fields[g].visible)}}
         \cup ty.possible_types
    [] ty.type_id = "Union" -> ty.possible_types
    [] ty.type_id = "InputObject" ->
         UNION {Mentioned(ty.input_fields[f].ty)
                : f \in {g \in DOMAIN ty.input_fields :
                           is_visible(ctx, ty.input_fields[g].visible)}}
    [] OTHER -> {}

\* the roots of the traversal: the root types, the types with keys, the types of
\* the visible arguments of the visible directives
VisibleRoots(ctx) ==
  {query_type} \cup mutation_type \cup subscription_type
  \cup KeyedNames(types)
  \cup UNION {UNION {Mentioned(directives[d].args[a].ty)
                     : a \in {b \in DOMAIN directives[d].args :
                                is_visible(ctx, directives[d].args[b].visible)}}
              : d \in {e \in DOMAIN directives : is_visible(ctx, directives[e].visible)}}

\* the visible Interfaces with a possible type in S
InterfacesOf(ctx, S) ==
  {n \in DOMAIN types : /\ types[n].type_id = "Interface"
                        /\ Seen(ctx, n)
                        /\ types[n].possible_types \cap S # {}}

RECURSIVE VisibleClosure(_, _)
\* what is reached from S along visible types, fields and arguments, the visible
\* Interfaces of a reached possible type included
VisibleClosure(ctx, S) ==
  LET T == S \cup {n \in UNION {VisiblyRefersTo(ctx, types[x]) : x \in S} : Seen(ctx, n)}
             \cup InterfacesOf(ctx, S)
  IN  IF T = S THEN S ELSE VisibleClosure(ctx, T)

VisiblyReachable(ctx) == VisibleClosure(ctx, {n \in VisibleRoots(ctx) : Seen(ctx, n)})

\* C11: an invisible node blocks traversal.  Every name find_visible_types
\* returns that is not built-in is a name of the store whose own visibility
\* predicate is true for the viewer, and it is a root, or is reached from a root
\* along types, fields and arguments that are all visible to the viewer, or is
\* a visible Interface of a reached possible type, or is reached from one.
C11_InvisibleBlocks ==
  Asked("find_visible_types") =>
    \A n \in asked.result \ BuiltInNames :
      /\ Seen(asked.arg, n)
      /\ n \in VisiblyReachable(asked.arg)

\* the guest was answered: the input object In is hidden from the guest, and the
\* enum E, visible by itself but referred to by In and by a hidden field only,
\* and the scalar Date, referred to by a hidden argument and a hidden directive
\* only, are registered and not in the answer
C11_Witness ==
  /\ Asked("find_visible_types") /\ asked.arg = "guest"
  /\ {"Query", "Mutation", "In", "E", "Date"} \subseteq DOMAIN types
  /\ Seen("guest", "E") /\ Seen("guest", "Date") /\ ~Seen("guest", "In")
  /\ {"Query", "Mutation", "A", "X"} \subseteq asked.result
  /\ asked.result \cap {"In", "E", "Date"} = {}

\* C12 (as claimed): the answer of find_visible_types contains every Interface
\* whose own visibility predicate is true for the viewer and that has a possible
\* type in the answer.
C12_RepairsInterfaces ==
  Asked("find_visible_types") =>
    InterfacesOf(asked.arg, asked.result) \subseteq asked.result

\* C13: find_visible_types returns every built-in name of the store, for every
\* viewer, reachable or not, whatever its own visibility predicate returns.
C13_BuiltInsAlwaysVisible ==
  Asked("find_visible_types") =>
    \A n \in DOMAIN types : n \in BuiltInNames => n \in asked.result

\* the guest was answered with __TypeKind, which nothing refers to and whose
\* visibility predicate is false for the guest
C13_Witness ==
  /\ Asked("find_visible_types") /\ asked.arg = "guest"
  /\ "__TypeKind" \in asked.result
  /\ ~Seen("guest", "__TypeKind")
  /\ "__TypeKind" \notin VisiblyReachable("guest")
  /\ "String" \in asked.result

----------------------------------------------------------------------------
\* Properties of type_overlap

Abstract(n) == types[n].type_id \in {"Interface", "Union"}

\* C14: type_overlap(a, b) is true when a and b are the same descriptor; for two
\* abstract types it is true exactly when their possible-type sets intersect;
\* for an abstract and a concrete type exactly when the concrete type's name is
\* a possible type of the abstract one; for two distinct concrete types it is
\* false.
C14_TypeOverlap ==
  Asked("type_overlap") =>
    LET a == asked.arg[1]
        b == asked.arg[2]
    IN  asked.result =
          (IF a = b THEN TRUE
           ELSE IF Abstract(a) /\ Abstract(b)
                THEN types[a].possible_types \cap types[b].possible_types # {}
           ELSE IF Abstract(a) THEN b \in types[a].possible_types
           ELSE IF Abstract(b) THEN a \in types[b].possible_types
           ELSE FALSE)

\* the union A and the interface J, two abstract types that share the possible
\* type Y, were found to overlap
C14_Witness ==
  /\ Asked("type_overlap")
  /\ asked.arg = <<"A", "J">> /\ asked.result = TRUE
  /\ types["A"].type_id = "Union" /\ types["J"].type_id = "Interface"
  /\ "Y" \in types["A"].possible_types \cap types["J"].possible_types

----------------------------------------------------------------------------
\* Properties of union composition

\* the variants of a union, by position
DirectVariants(d) == {i \in 1..Len(Defs[d].members) : ~Defs[d].members[i].flatten}
FlattenVariants(d) == {i \in 1..Len(Defs[d].members) : Defs[d].members[i].flatten}

\* the type names of the direct members, the definitions of the flattened ones
DirectNames(d) == {Defs[Resolve(Defs[d].members[i].ty)].name : i \in DirectVariants(d)}
FlattenedBy(d) == {Resolve(Defs[d].members[i].ty) : i \in FlattenVariants(d)}

RECURSIVE FlattenClosure(_)
\* the unions a set of unions flattens, transitively
FlattenClosure(S) ==
  LET T == S \cup UNION {FlattenedBy(u) : u \in S}
  IN  IF T = S THEN S ELSE FlattenClosure(T)

\* the possible types a union composes to
Composed(d) == UNION {DirectNames(u) : u \in FlattenClosure({d})}

\* the store holds the descriptor that the builder of d returned
Registered(d) ==
  /\ Bound(d)
  /\ types[Defs[d].name].rust_typename = {Defs[d].rust}
  /\ types[Defs[d].name].type_id = Defs[d].type_id

\* C15 (as claimed): the possible types registered for a Union are the type
\* names of its direct members together with every possible type of each
\* flattened member, transitively.
C15_Composition ==
  \A d \in UnionIds :
    Registered(d) => types[Defs[d].name].possible_types = Composed(d)

\* two variants name one Rust type
HasDuplicate(d) ==
  \E i \in 1..Len(Defs[d].members) : \E j \in 1..(i - 1) :
     Resolve(Defs[d].members[j].ty) = Resolve(Defs[d].members[i].ty)
\* two variants are written with one type path
HasWrittenDuplicate(d) ==
  \E i \in 1..Len(Defs[d].members) : \E j \in 1..(i - 1) :
     Defs[d].members[j].ty = Defs[d].members[i].ty

C17_EmptyUnion ==
  /\ Asked("generate") /\ Defs[asked.arg].members = <<>> => asked.result = "NoMembers"
  /\ \A n \in DOMAIN types :
       types[n].type_id = "Union" /\ Finished(types[n]) => types[n].possible_types # {}

RECURSIVE Wrapped(_)
\* the object a union value wraps, under however many flattened variants
Wrapped(v) == IF v.def \in UnionIds THEN Wrapped(v.obj) ELSE v.def

RECURSIVE Tags(_)
\* the variants that are active in a union value, outermost first
Tags(v) ==
  IF v.def \in UnionIds THEN <<Defs[v.def].members[v.variant]>> \o Tags(v.obj) ELSE <<>>

\* C18: the concrete type name of a union value is determined by its active
\* tag: for a direct member it is the member's own type name, for a flattened
\* member what the member's own dispatch answers for the wrapped value; so it is
\* the type name of the object under the flattened variants.
C18_ActiveTag ==
  Asked("introspection_type_name") =>
    LET v == asked.arg
        member == Defs[v.def].members[v.variant]
    IN  /\ ~member.flatten => asked.result = Defs[Resolve(member.ty)].name
        /\ asked.result = Defs[Wrapped(v)].name

\* a value of A was asked whose variant is the flattened B, holding a Y
C18_Witness ==
  /\ Asked("introspection_type_name")
  /\ asked.arg.def = "A"
  /\ Len(Tags(asked.arg)) = 2
  /\ Tags(asked.arg)[1].flatten /\ ~Tags(asked.arg)[2].flatten
  /\ Wrapped(asked.arg) = "Y"
  /\ asked.result = "Y"

----------------------------------------------------------------------------
\* Properties of type references

\* the one name of a well-formed type reference
InnermostName(t) == CHOOSE n \in Mentioned(t) : TRUE

\* C19: a well-formed type reference parsed with MetaTypeName::create and
\* written as text is the string that was parsed, and create sees its outermost
\* wrapper: non-null for a trailing "!", else a list for brackets, else a name.
C19_RoundTrip ==
  Asked("create") =>
    LET t == asked.arg
    IN  /\ asked.result.text = t
        /\ asked.result.parsed.tag =
             (IF t[Len(t)] = "!" THEN "NonNull"
              ELSE IF t[1] = "[" THEN "List" ELSE "Named")
        /\ asked.result.parsed.name \in TypeRefs(MaxNesting)

\* "[Int!]!" was parsed, as the non-null of "[Int!]", and written as "[Int!]!"
C19_Witness ==
  /\ Asked("create")
  /\ asked.arg = <<"[", "Int", "!", "]", "!">>
  /\ asked.result.parsed = [tag |-> "NonNull", name |-> <<"[", "Int", "!", "]">>]
  /\ asked.result.text = <<"[", "Int", "!", "]", "!">>

\* C20: concrete_type_by_name of a well-formed type reference answers with the
\* descriptor the store holds under the innermost name, whatever wraps the
\* name, and with absence when the store does not hold that name.
C20_ConcreteTypeByName ==
  Asked("concrete_type_by_name") =>
    /\ Cardinality(Mentioned(asked.arg)) = 1
    /\ asked.result = IF InnermostName(asked.arg) \in DOMAIN types
                      THEN {types[InnermostName(asked.arg)]}
                      ELSE {}

\* "[X!]!" was resolved to the descriptor of X
C20_Witness ==
  /\ Asked("concrete_type_by_name")
  /\ asked.arg = <<"[", "X", "!", "]", "!">>
  /\ "X" \in DOMAIN types
  /\ asked.result = {types["X"]}
  /\ types["X"].name = "X"

----------------------------------------------------------------------------
\* Properties of the store after a registration pass

\* no create_type call is running and none has panicked
PassComplete == stack = <<>> /\ status = "ok"

\* C24: after a complete registration pass, and after the federation pass and
\* after pruning, every name of the possible types of every Union and Interface
\* of the store is a name of the store.
C24_PossibleTypesStored ==
  PassComplete =>
    \A n \in DOMAIN types : Abstract(n) => types[n].possible_types \subseteq DOMAIN types

\* pruning has removed the union B and kept A, "_Entity" and their possible types
C24_Witness ==
  /\ phase = "pruned" /\ status = "ok"
  /\ invoked["B"] = 1 /\ "B" \notin DOMAIN types
  /\ "A" \in DOMAIN types /\ types["A"].possible_types = {"X", "Y"}
  /\ "_Entity" \in DOMAIN types /\ types["_Entity"].possible_types = {"X"}

\* the descriptor is the one the builder of definition d returns, but for the
\* possible types a union builder collects and the keys add_keys adds
ReturnedBy(ty, d) ==
  [ty EXCEPT !.keys = {}, !.possible_types = {}]
    = [Defs[d].desc EXCEPT !.keys = {}, !.possible_types = {}]

\* C26: the placeholder is in the store under the names whose builder is
\* running and under no other: when the outermost create_type call returns no
\* name is bound to the placeholder, and every name is bound to the descriptor
\* that the builder of a definition of that name returned.
C26_NoPlaceholderLeft ==
  /\ status = "ok" =>
       \A n \in DOMAIN types : ~Finished(types[n]) <=> OnStack(n)
  /\ PassComplete /\ phase = "register" =>
       \A n \in DOMAIN types :
          /\ Finished(types[n])
          /\ \E d \in DefIds : Defs[d].name = n /\ ReturnedBy(types[n], d)

\* A and Y refer to each other: the pass from Query has returned, and the field
\* of Y that was built while A was the placeholder resolves to the union A
C26_Witness ==
  /\ PassComplete /\ phase = "register"
  /\ {"A", "Y"} \subseteq DOMAIN types
  /\ "back" \in DOMAIN types["Y"].fields
  /\ \E ty \in concrete_type_by_name(types, types["Y"].fields["back"].ty) :
        ty.type_id = "Union" /\ ty.name = "A"

\* C27 (as claimed): the concrete type name that dispatch answers for a value
\* of a registered union is one of the possible types the store has for the
\* union.
C27_DispatchIsPossibleType ==
  Asked("introspection_type_name") /\ Registered(asked.arg.def) =>
    asked.result \in types[Defs[asked.arg.def].name].possible_types

\* C29: remove_unused_types touches only the type store, where it leaves the
\* descriptors it keeps as they are, and it is idempotent: pruning the pruned
\* store removes nothing, so the one step that changes the store of a pruned
\* registry is the first pruning.
C29_PruneIdempotent ==
  [][phase' = "pruned" /\ <<phase, types>>' # <<phase, types>> =>
       /\ phase = "federated"
       /\ UNCHANGED beside_types
       /\ DOMAIN types' \subseteq DOMAIN types
       /\ \A n \in DOMAIN types' : types'[n] = types[n]
       /\ remove_unused_types(types', directives', query_type', mutation_type',
                              subscription_type') = types']_vars

\* pruning has removed the interface H and its implementor Z and has left the
\* implements edge of Z; pruning the store again gives the same store
C29_Witness ==
  /\ phase = "pruned" /\ status = "ok"
  /\ "Query" \in DOMAIN types
  /\ invoked["H"] = 1 /\ "H" \notin DOMAIN types /\ "Z" \notin DOMAIN types
  /\ "Z" \in DOMAIN implements /\ implements["Z"] = {"H"}
  /\ remove_unused_types(types, directives, query_type, mutation_type,
                         subscription_type) = types

\* the visibility predicates of the registry: of the types, their fields, the
\* fields' arguments and the input fields, of the directives and their arguments
Predicates ==
  {types[n].visible : n \in DOMAIN types}
  \cup UNION {{types[n].fields[f].visible : f \in DOMAIN types[n].fields} : n \in DOMAIN types}
  \cup UNION {UNION {{types[n].fields[f].args[a].visible : a \in DOMAIN types[n].fields[f].args}
                      : f \in DOMAIN types[n].fields} : n \in DOMAIN types}
  \cup UNION {{types[n].input_fields[f].visible : f \in DOMAIN types[n].input_fields}
               : n \in DOMAIN types}
  \cup {directives[d].visible : d \in DOMAIN directives}
  \cup UNION {{directives[d].args[a].visible : a \in DOMAIN directives[d].args}
               : d \in DOMAIN directives}

\* every predicate is absent or true for the viewer
AllVisibleTo(ctx) == \A visible \in Predicates : is_visible(ctx, visible)

\* C30: on a pruned registry whose visibility predicates are all absent or true
\* for the viewer, find_visible_types returns the names of the store.
C30_VisibleIsStore ==
  Asked("find_visible_types") /\ AllVisibleTo(asked.arg) =>
    asked.result = DOMAIN types

\* the viewer all predicates are true for asked on a pruned store that has
\* predicates, a keyed interface no field refers to, and the federation types
C30_Witness ==
  /\ Asked("find_visible_types") /\ AllVisibleTo(asked.arg)
  /\ \E visible \in Predicates : visible # {}
  /\ "I" \in DOMAIN types /\ IsKeyed(types["I"])
  /\ {"Query", "_Entity", "_Service", "_Any", "String"} \subseteq DOMAIN types
  /\ asked.result = DOMAIN types

----------------------------------------------------------------------------
\* Requests that read the registry at the same time.  The registry is handed to
\* the serving layer behind a shared reference (&self): every request runs the
\* read functions on it, and a call of find_visible_types is interleaved with
\* the calls of the other requests between its loops.

\* a set the calls share: a call starts on what the other calls have collected
new_visible_types_Shared(reqs, r) ==
  UNION {reqs[o].visible_types : o \in Requests \ {r}}

\* let mut visible_types = HashSet::new(): the set is a local of the call
new_visible_types(reqs, r) == {}

Handed == phase = "pruned" /\ status = "ok" /\ asked = NoQuery

\* a step of request r: nothing but the request's own locals changes
Locally(r, pc, visible_types) ==
  /\ requests' = [requests EXCEPT ![r].pc = pc, ![r].visible_types = visible_types]
  /\ UNCHANGED <<config, types, implements, enable_federation, stack, status, phase,
                 driven, invoked, nkeys, last, first, asked>>

\* request r calls find_visible_types(ctx)
BeginFindVisibleTypes(r, ctx) ==
  /\ Handed
  /\ requests[r].pc = "idle"
  /\ requests' = [requests EXCEPT ![r] =
                    [Idle EXCEPT !.pc = "directives", !.arg = <<ctx>>,
                                 !.visible_types = new_visible_types(requests, r)]]
  /\ UNCHANGED <<config, types, implements, enable_federation, stack, status, phase,
                 driven, invoked, nkeys, last, first, asked>>

\* for directive in self.directives.values()
TraverseDirectives(r) ==
  /\ requests[r].pc = "directives"
  /\ Locally(r, "roots",
             visible_traverse_directives(requests[r].arg[1], types,
                                         requests[r].visible_types,
                                         directives, DOMAIN directives))

\* for type_name in query_type, mutation_type, subscription_type
TraverseRoots(r) ==
  /\ requests[r].pc = "roots"
  /\ Locally(r, "keyed",
             visible_traverse_types(requests[r].arg[1], types, requests[r].visible_types,
                                    {query_type} \cup mutation_type \cup subscription_type))

\* for ty in the types with keys
TraverseKeyed(r) ==
  /\ requests[r].pc = "keyed"
  /\ Locally(r, "interfaces",
             visible_traverse_types(requests[r].arg[1], types, requests[r].visible_types,
                                    {types[n].name : n \in {k \in DOMAIN types : IsKeyed(types[k])}}))

\* for ty in self.types.values() { if let MetaType::Interface .. }
TraverseInterfaces(r) ==
  /\ requests[r].pc = "interfaces"
  /\ Locally(r, "collect",
             visible_interfaces(requests[r].arg[1], types, requests[r].visible_types, 1))

\* self.types.values().filter_map(..).collect(): the call returns
Collect(r) ==
  /\ requests[r].pc = "collect"
  /\ requests' = [requests EXCEPT ![r].pc = "done", ![r].result =
                    {types[n].name : n \in {k \in DOMAIN types :
                        \/ is_system_type(types[k].name)
                        \/ types[k].name \in requests[r].visible_types}}]
  /\ UNCHANGED <<config, types, implements, enable_federation, stack, status, phase,
                 driven, invoked, nkeys, last, first, asked>>

\* request r looks two types up with concrete_type_by_name and asks type_overlap,
\* which asks is_possible_type
Lookup(r, a, b) ==
  /\ Handed
  /\ requests[r].pc = "idle"
  /\ concrete_type_by_name(types, Named(a)) # {}
  /\ concrete_type_by_name(types, Named(b)) # {}
  /\ requests' = [requests EXCEPT ![r] =
                    [Idle EXCEPT !.pc = "looked", !.arg = <<a, b>>,
                                 !.answer = type_overlap(types, a, b)]]
  /\ UNCHANGED <<config, types, implements, enable_federation, stack, status, phase,
                 driven, invoked, nkeys, last, first, asked>>

\* the schema that is served, and the pairs of names the requests look up
ServedDefs == {"Query", "Mutation", "I"}
LookupNames == {"A", "J"}

\* the schema is built before the registry is handed to the requests
Build ==
  /\ \A r \in Requests : requests[r].pc = "idle"
  /\ Next
  /\ driven' \subseteq ServedDefs

NextServe ==
  \/ Build
  \/ \E r \in Requests, ctx \in Viewers : BeginFindVisibleTypes(r, ctx)
  \/ \E r \in Requests : TraverseDirectives(r)
  \/ \E r \in Requests : TraverseRoots(r)
  \/ \E r \in Requests : TraverseKeyed(r)
  \/ \E r \in Requests : TraverseInterfaces(r)
  \/ \E r \in Requests : Collect(r)
  \/ \E r \in Requests, a \in LookupNames, b \in LookupNames : Lookup(r, a, b)

SpecServe == Init /\ [][NextServe]_vars

\* C25: the reads of the requests, in whatever interleaving, leave the registry
\* as it is, and a call of find_visible_types returns what the call returns when
\* it runs alone; so does a call of type_overlap.
C25_ReadsDoNotInterfere ==
  /\ [](\A r \in Requests :
          /\ requests[r].pc = "done" =>
               requests[r].result =
                 find_visible_types(types, directives, query_type, mutation_type,
                                    subscription_type, requests[r].arg[1])
          /\ requests[r].pc = "looked" =>
               requests[r].answer = type_overlap(types, requests[r].arg[1], requests[r].arg[2]))
  /\ [][requests' # requests => UNCHANGED <<types, beside_types>>]_vars

\* the call of the guest has returned while the call of the admin, begun before
\* it, is in its loop over the interfaces with names the guest does not see
C25_Witness ==
  /\ requests[1].pc = "interfaces" /\ requests[1].arg = <<"admin">>
  /\ requests[2].pc = "done" /\ requests[2].arg = <<"guest">>
  /\ \E n \in requests[1].visible_types : n \notin requests[2].result
  /\ "H" \in DOMAIN types

----------------------------------------------------------------------------
\* Symmetry of type_overlap

\* C31: type_overlap is symmetric: what it answers for two descriptors of the
\* store is what it answers for the two in the other order.
C31_OverlapSymmetric ==
  Asked("type_overlap") =>
    asked.result = type_overlap(types, asked.arg[2], asked.arg[1])

\* the object X was asked against the union A it is a possible type of: the
\* concrete side is self, and the answer is true as it is with A as self
C31_Witness ==
  /\ Asked("type_overlap")
  /\ asked.arg = <<"X", "A">>
  /\ ~Abstract("X") /\ Abstract("A")
  /\ asked.result = TRUE
  /\ type_overlap(types, "A", "X")

----------------------------------------------------------------------------
\* Properties of is_subtype

\* the type reference has no trailing "!"
Nullable(t) == t[Len(t)] # "!"

\* C32 (as claimed): is_subtype is reflexive on well-formed type references; for
\* a nullable reference T, named or list, T accepts the sub-type T! and T! does
\* not accept the sub-type T.
C32_NonNullIsSubtype ==
  Asked("is_subtype") =>
    LET super_type == asked.arg[1]
        sub_type == asked.arg[2]
    IN  /\ sub_type = super_type => asked.result
        /\ Nullable(super_type) /\ sub_type = NonNull(super_type) => asked.result
        /\ Nullable(sub_type) /\ super_type = NonNull(sub_type) => ~asked.result

----------------------------------------------------------------------------
\* Two builds of the same schema

\* the definitions that do not reuse another definition's GraphQL name
CoreDefs == {d \in DefIds : \A e \in DefIds : Defs[e].name = Defs[d].name => e = d}

\* The schema is built again (a schema reload) from a fresh registry; the
\* outcome of the build before is kept for comparison.
Reload ==
  /\ phase = "pruned" /\ status = "ok" /\ first = {}
  /\ first' = {[types |-> types, driven |-> driven, enable_federation |-> enable_federation]}
  /\ types' = <<>>
  /\ implements' = <<>>
  /\ enable_federation' = FALSE
  /\ stack' = <<>>
  /\ phase' = "register"
  /\ driven' = {}
  /\ invoked' = [n \in Names |-> 0]
  /\ last' = NoCall
  /\ asked' = NoQuery
  /\ UNCHANGED <<requests, config, status, nkeys>>

\* A build from definitions with distinct names and no keys; the second build
\* starts registrations from the definitions the first one started from.
SameDefinitions ==
  /\ nkeys' = 0
  /\ driven' \subseteq CoreDefs
  /\ \A f \in first : driven' \subseteq f.driven

NextOrder ==
  \/ Next /\ SameDefinitions
  \/ Reload

SpecOrder == Init /\ [][NextOrder]_vars

\* C6 (as claimed): two registration passes that start from the same
\* definitions, in whatever order, followed by remove_unused_types, end with
\* the same store.
C6_OrderIndependent ==
  \A f \in first :
    /\ phase = "pruned" /\ status = "ok"
    /\ driven = f.driven
    /\ enable_federation = f.enable_federation
    => types = f.types

====
